---- MODULE Spec2Model ----
(***************************************************************************)
(* Model of src/scraper.py: the HTTP fetcher with its retry loop, the      *)
(* listing parser, the URL resolver, the profile email extractor and the   *)
(* scrape/main orchestration.                                              *)
(*                                                                         *)
(* Strings the code inspects character by character (hrefs, URLs, emails)  *)
(* are sequences of one-character strings.  Python's None is the empty     *)
(* option <<>>, a present value x is <<x>>.                                *)
(***************************************************************************)
EXTENDS Integers, Sequences, FiniteSets, TLC

VARIABLES pc, caller, url, retry, attempt, resp, log, budget,
          pages, delay, page, entries, idx, all_companies, df, written,
          arg, ret

vars == <<pc, caller, url, retry, attempt, resp, log, budget,
          pages, delay, page, entries, idx, all_companies, df, written,
          arg, ret>>

scrapeVars == <<pages, delay, page, entries, idx, all_companies, df, written>>

(***************************************************************************)
(* Bounds of the model.                                                    *)
(***************************************************************************)
MaxRetry == 3
MaxPages == 2
MaxFail == 3
MaxNames == 2
MaxLocs == 2
MaxAnchors == 2
MaxText == 2

(***************************************************************************)
(* Options and small helpers.                                              *)
(***************************************************************************)
None == <<>>
Some(x) == <<x>>
IsNone(o) == o = <<>>
Val(o) == o[1]

Range(s) == {s[i] : i \in 1..Len(s)}

\* s.startswith(p)
StartsWith(s, p) == Len(s) >= Len(p) /\ SubSeq(s, 1, Len(p)) = p

\* sep.join(parts)
RECURSIVE Join(_, _)
Join(sep, parts) ==
    IF parts = <<>> THEN <<>>
    ELSE IF Len(parts) = 1 THEN parts[1]
    ELSE parts[1] \o sep \o Join(sep, Tail(parts))

\* str(n) for n >= 0
DecimalDigits == <<"0","1","2","3","4","5","6","7","8","9">>
RECURSIVE Str(_)
Str(n) == IF n < 10 THEN <<DecimalDigits[n + 1]>>
          ELSE Str(n \div 10) \o <<DecimalDigits[(n % 10) + 1]>>

(***************************************************************************)
(* Module constants of scraper.py.                                         *)
(***************************************************************************)
BaseScheme == <<"h","t","t","p","s">>
BaseNetloc == <<"w","w","w",".","g","o","o","d","f","i","r","m","s",".","c","o">>
BasePath == <<"/","b","i","g","-","d","a","t","a","-","a","n","a","l","y","t","i","c","s",
              "/","d","a","t","a","-","a","n","a","l","y","t","i","c","s">>
BASE_LISTING == BaseScheme \o <<":","/","/">> \o BaseNetloc \o BasePath

DefaultRetry == 2

(***************************************************************************)
(* The pages a GET can return.  A page is what the code can see of the     *)
(* HTML: the <span itemprop=name> elements in document order, the          *)
(* <div class=firm-location> elements in document order, the hrefs of the  *)
(* a[href^=mailto] anchors (each with the EMAIL_RE matches in it), and the *)
(* EMAIL_RE matches in the raw HTML text.                                  *)
(***************************************************************************)
HrefAcme == <<"/","p","r","o","f","i","l","e","/","a","c","m","e">>
HrefHttpRel == <<"h","t","t","p","-","s","e","r","v","i","c","e","s","/","a","c","m","e">>
HrefAbs == <<"h","t","t","p","s",":","/","/","a","c","m","e",".","c","o","m","/","a","b","o","u","t">>
Sales == <<"s","a","l","e","s","@","a","c","m","e",".","c","o","m">>
Info == <<"i","n","f","o","@","a","c","m","e",".","c","o","m">>

\* a name span: its text fragments and the href of its enclosing <a>, if any
Span(frags, href) == [frags |-> frags, href |-> href]

ListingA ==
    [name_spans |-> << Span(<<"Acme Co">>, Some(HrefAcme)), Span(<<"Beta LLC">>, None) >>,
     loc_divs |-> << <<"New York", "US">> >>,
     mailto |-> <<>>, text |-> <<>>]

ListingC ==
    [name_spans |-> << Span(<<"Acme Co">>, Some(HrefAbs)), Span(<<"Gamma", "Inc">>, Some(<<>>)) >>,
     loc_divs |-> << <<"Paris">>, <<>> >>,
     mailto |-> <<>>, text |-> <<Info>>]

ProfileAcme ==
    [name_spans |-> <<>>, loc_divs |-> <<>>,
     mailto |-> << <<Sales>> >>,
     text |-> <<Sales, Info>>]

SitePages == {ListingA, ListingC, ProfileAcme}

(***************************************************************************)
(* fetch(url, retry=2, timeout=15): one action per GET attempt.            *)
(***************************************************************************)
\* The log records what the run does to the outside world, in order: each
\* call of fetch, each GET with its outcome (the page, or None for a failed
\* attempt), and each time.sleep with the place that sleeps.
Call(u, c) == [op |-> "fetch", by |-> c, url |-> u, body |-> None, secs |-> 0]
Get(u, c, b) == [op |-> "GET", by |-> c, url |-> u, body |-> b, secs |-> 0]
Sleep(secs, why) == [op |-> "sleep", by |-> why, url |-> <<>>, body |-> None, secs |-> secs]

\* a backoff that doubles instead of growing by one second
BackoffDoubling(a) == 2 * (a + 1)

\* the backoff of line 40
Backoff(a) == 2 + a

\* calling fetch(u, r) on behalf of c
CallFetch(c, u, r) ==
    /\ caller' = c
    /\ url' = u
    /\ retry' = r
    /\ attempt' = 0
    /\ resp' = None
    /\ log' = Append(log, Call(u, c))
    /\ pc' = "fetch"

\* requests.get succeeds and raise_for_status passes: return r
FetchOk ==
    /\ pc = "fetch"
    /\ \E body \in SitePages :
          /\ resp' = Some(body)
          /\ log' = Append(log, Get(url, caller, Some(body)))
    /\ pc' = "fetch_ok"
    /\ UNCHANGED <<caller, url, retry, attempt, budget>>
    /\ UNCHANGED scrapeVars
    /\ UNCHANGED <<arg, ret>>

\* the attempt fails and attempts remain: sleep 2 + attempt, continue
FetchRetry ==
    /\ pc = "fetch"
    /\ budget > 0
    /\ attempt < retry
    /\ log' = log \o <<Get(url, caller, None), Sleep(Backoff(attempt), "backoff")>>
    /\ attempt' = attempt + 1
    /\ budget' = budget - 1
    /\ UNCHANGED <<pc, caller, url, retry, resp>>
    /\ UNCHANGED scrapeVars
    /\ UNCHANGED <<arg, ret>>

\* the last attempt fails: re-raise
FetchRaise ==
    /\ pc = "fetch"
    /\ budget > 0
    /\ ~(attempt < retry)
    /\ log' = Append(log, Get(url, caller, None))
    /\ budget' = budget - 1
    /\ pc' = "fetch_raise"
    /\ UNCHANGED <<caller, url, retry, attempt, resp>>
    /\ UNCHANGED scrapeVars
    /\ UNCHANGED <<arg, ret>>

(***************************************************************************)
(* Characters.  Ascii lists the characters an email can hold in code point *)
(* order, so the index of a character orders it as Python's str            *)
(* comparison does.                                                        *)
(***************************************************************************)
LowerCase == <<"a","b","c","d","e","f","g","h","i","j","k","l","m","n","o","p","q","r","s","t","u","v","w","x","y","z">>
UpperCase == <<"A","B","C","D","E","F","G","H","I","J","K","L","M","N","O","P","Q","R","S","T","U","V","W","X","Y","Z">>
Digits == DecimalDigits
Ascii == <<"%","+","-",".","0","1","2","3","4","5","6","7","8","9","@","A","B","C","D","E","F","G","H","I","J","K","L","M","N","O","P","Q","R","S","T","U","V","W","X","Y","Z","_","a","b","c","d","e","f","g","h","i","j","k","l","m","n","o","p","q","r","s","t","u","v","w","x","y","z">>

Letters == Range(LowerCase) \cup Range(UpperCase)
Ord(c) == CHOOSE i \in 1..Len(Ascii) : Ascii[i] = c

\* c.lower()
LowerChar(c) ==
    IF c \in Range(UpperCase)
    THEN LowerCase[CHOOSE i \in 1..Len(UpperCase) : UpperCase[i] = c]
    ELSE c
Lower(s) == [i \in 1..Len(s) |-> LowerChar(s[i])]

\* a < b for str: the first differing character decides, a proper prefix is smaller
RECURSIVE StrLess(_, _)
StrLess(a, b) ==
    IF b = <<>> THEN FALSE
    ELSE IF a = <<>> THEN TRUE
    ELSE IF Head(a) = Head(b) THEN StrLess(Tail(a), Tail(b))
    ELSE Ord(Head(a)) < Ord(Head(b))

(***************************************************************************)
(* parse_listing_page(html)                                                *)
(***************************************************************************)
\* element.get_text(separator, strip=True): the stripped text fragments
\* joined by the separator
GetText(frags, sep) == Join(sep, [i \in 1..Len(frags) |-> <<frags[i]>>])

\* a pairing that never uses the last location div
ParseEntryDropsLastLocation(html, i) ==
    [name |-> GetText(html.name_spans[i].frags, <<>>),
     profile_href |-> html.name_spans[i].href,
     listing_location |->
        IF i < Len(html.loc_divs)
        THEN Some(GetText(html.loc_divs[i], <<", ">>))
        ELSE None]

ParseEntry(html, i) ==
    [name |-> GetText(html.name_spans[i].frags, <<>>),
     profile_href |-> html.name_spans[i].href,
     listing_location |->
        IF i - 1 < Len(html.loc_divs)
        THEN Some(GetText(html.loc_divs[i], <<", ">>))
        ELSE None]

ParseListingPage(html) == [i \in 1..Len(html.name_spans) |-> ParseEntry(html, i)]

(***************************************************************************)
(* resolve_profile_url(href), with urllib.parse.urljoin against            *)
(* BASE_LISTING.                                                           *)
(***************************************************************************)
SchemeChars == Letters \cup Range(Digits) \cup {"+", "-", "."}
Http == <<"h","t","t","p">>

\* urlsplit's scheme: the text before the first ':' when it starts with a
\* letter and holds scheme characters only, lower-cased
Scheme(u) ==
    LET colons == {i \in 1..Len(u) : u[i] = ":"}
    IN IF colons = {} THEN None
       ELSE LET i == CHOOSE k \in colons : \A j \in colons : k <= j
            IN IF /\ i > 1
                  /\ u[1] \in Letters
                  /\ \A j \in 1..(i - 1) : u[j] \in SchemeChars
               THEN Some(Lower(SubSeq(u, 1, i - 1)))
               ELSE None

\* the base path up to and including its last '/'
BaseDir ==
    LET slashes == {i \in 1..Len(BasePath) : BasePath[i] = "/"}
        last == CHOOSE k \in slashes : \A j \in slashes : j <= k
    IN SubSeq(BasePath, 1, last)

BaseRoot == BaseScheme \o <<":","/","/">> \o BaseNetloc

\* urljoin(BASE_LISTING, u) for a non-empty u that has no '.' or '..' segment,
\* no empty path segment, no empty host, and no empty query or fragment
UrlJoin(u) ==
    LET s == Scheme(u)
        rest == IF IsNone(s) THEN u ELSE SubSeq(u, Len(Val(s)) + 2, Len(u))
    IN IF ~IsNone(s) /\ Val(s) # BaseScheme THEN u
       ELSE IF StartsWith(rest, <<"/","/">>) THEN BaseScheme \o <<":">> \o rest
       ELSE IF rest = <<>> \/ Head(rest) \in {"?", "#"} THEN BASE_LISTING \o rest
       ELSE IF Head(rest) = "/" THEN BaseRoot \o rest
       ELSE BaseRoot \o BaseDir \o rest

ResolveProfileUrl(href) ==
    IF IsNone(href) \/ Val(href) = <<>> THEN None
    ELSE IF StartsWith(Val(href), Http) THEN href
    ELSE Some(UrlJoin(Val(href)))

\* a URL is absolute when it has a scheme
IsAbsolute(u) == ~IsNone(Scheme(u))

(***************************************************************************)
(* extract_emails_from_profile, after the fetch: lines 73-85.              *)
(***************************************************************************)
\* lines 76-81: EMAIL_RE.search keeps the first match of each mailto href
MailtoEmails(html) ==
    {html.mailto[i][1] : i \in {k \in 1..Len(html.mailto) : html.mailto[k] # <<>>}}

\* lines 82-83: EMAIL_RE.findall over the raw HTML
TextEmails(html) == Range(html.text)

EmailSet(html) == MailtoEmails(html) \cup TextEmails(html)

\* the orders in which iterating a set can yield its elements
Orderings(S) ==
    {o \in [1..Cardinality(S) -> S] : \A i, j \in 1..Cardinality(S) : i # j => o[i] # o[j]}

\* insert x before the first element greater than it
RECURSIVE Insert(_, _)
Insert(x, s) ==
    IF s = <<>> THEN <<x>>
    ELSE IF StrLess(x, Head(s)) THEN <<x>> \o s
    ELSE <<Head(s)>> \o Insert(x, Tail(s))

\* sorted(xs)
RECURSIVE Sorted(_)
Sorted(xs) == IF xs = <<>> THEN <<>> ELSE Insert(xs[Len(xs)], Sorted(SubSeq(xs, 1, Len(xs) - 1)))

\* the emails returned in the order the set yields them
ExtractEmailsUnsorted(o) == o

\* the list returned for the page when the set iterates in order o
ExtractEmails(o) == Sorted(o)

(***************************************************************************)
(* scrape(pages, delay) and the __main__ block.                            *)
(***************************************************************************)
\* a page parameter on the first page too
ListingUrlAlwaysQuery(k) == BASE_LISTING \o <<"?","p","a","g","e","=">> \o Str(k)

\* lines 97-99
ListingUrl(k) ==
    IF k > 1 THEN BASE_LISTING \o <<"?","p","a","g","e","=">> \o Str(k) ELSE BASE_LISTING

\* Python truthiness of an optional string
Truthy(o) == ~IsNone(o) /\ Val(o) # <<>>

\* line 108
ProfileUrl(e) == IF Truthy(e.profile_href) THEN ResolveProfileUrl(e.profile_href) ELSE None

\* lines 118-123
Company(e, emails) ==
    [company_name |-> e.name,
     company_profile_url |-> ProfileUrl(e),
     company_geo |-> e.listing_location,
     company_emails |-> IF emails # <<>> THEN Join(<<";"," ">>, emails) ELSE <<>>]

\* a company already recorded under the same name is skipped
AppendCompanyDedup(emails) ==
    /\ all_companies' =
          IF \E k \in 1..Len(all_companies) :
                all_companies[k].company_name = entries[idx].name
          THEN all_companies
          ELSE Append(all_companies, Company(entries[idx], emails))
    /\ idx' = idx + 1

\* line 124 and the step of the entry loop
AppendCompany(emails) ==
    /\ all_companies' = Append(all_companies, Company(entries[idx], emails))
    /\ idx' = idx + 1

\* lines 96-101: the next listing page is requested
PageStart ==
    /\ pc = "page_loop"
    /\ page <= pages
    /\ CallFetch("listing", ListingUrl(page), DefaultRetry)
    /\ UNCHANGED budget
    /\ UNCHANGED scrapeVars
    /\ UNCHANGED <<arg, ret>>

\* lines 102-103: the listing page arrived and is parsed
ListingFetched ==
    /\ pc = "fetch_ok"
    /\ caller = "listing"
    /\ entries' = ParseListingPage(Val(resp))
    /\ idx' = 1
    /\ pc' = "entry_loop"
    /\ UNCHANGED <<caller, url, retry, attempt, resp, log, budget>>
    /\ UNCHANGED <<pages, delay, page, all_companies, df, written>>
    /\ UNCHANGED <<arg, ret>>

\* a listing failure that is swallowed: the run goes on with the next page
ListingFailedSkipsPage ==
    /\ pc = "fetch_raise"
    /\ caller = "listing"
    /\ page' = page + 1
    /\ pc' = "page_loop"
    /\ UNCHANGED <<caller, url, retry, attempt, resp, log, budget>>
    /\ UNCHANGED <<pages, delay, entries, idx, all_companies, df, written>>
    /\ UNCHANGED <<arg, ret>>

\* line 101 raises: nothing in scrape or __main__ catches it
ListingFailed ==
    /\ pc = "fetch_raise"
    /\ caller = "listing"
    /\ pc' = "aborted"
    /\ UNCHANGED <<caller, url, retry, attempt, resp, log, budget>>
    /\ UNCHANGED scrapeVars
    /\ UNCHANGED <<arg, ret>>

\* lines 105-111, 118-124: an entry without a profile URL
EntryNoProfile ==
    /\ pc = "entry_loop"
    /\ idx <= Len(entries)
    /\ ~Truthy(ProfileUrl(entries[idx]))
    /\ AppendCompany(<<>>)
    /\ UNCHANGED <<pc, caller, url, retry, attempt, resp, log, budget>>
    /\ UNCHANGED <<pages, delay, page, entries, df, written>>
    /\ UNCHANGED <<arg, ret>>

\* lines 105-114, 69-70: an entry with a profile URL, the profile is requested
EntryVisit ==
    /\ pc = "entry_loop"
    /\ idx <= Len(entries)
    /\ Truthy(ProfileUrl(entries[idx]))
    /\ CallFetch("profile", Val(ProfileUrl(entries[idx])), DefaultRetry)
    /\ UNCHANGED budget
    /\ UNCHANGED scrapeVars
    /\ UNCHANGED <<arg, ret>>

\* lines 73-85, 115, 118-124: the profile arrived
ProfileFetched ==
    /\ pc = "fetch_ok"
    /\ caller = "profile"
    /\ \E o \in Orderings(EmailSet(Val(resp))) : AppendCompany(ExtractEmails(o))
    /\ log' = Append(log, Sleep(delay, "profile"))
    /\ pc' = "entry_loop"
    /\ UNCHANGED <<caller, url, retry, attempt, resp, budget>>
    /\ UNCHANGED <<pages, delay, page, entries, df, written>>
    /\ UNCHANGED <<arg, ret>>

\* a profile failure that propagates and ends the run
ProfileFailedAborts ==
    /\ pc = "fetch_raise"
    /\ caller = "profile"
    /\ pc' = "aborted"
    /\ UNCHANGED <<caller, url, retry, attempt, resp, log, budget>>
    /\ UNCHANGED scrapeVars
    /\ UNCHANGED <<arg, ret>>

\* lines 71-72, 115, 118-124: the profile fetch raised, the emails are []
ProfileFailed ==
    /\ pc = "fetch_raise"
    /\ caller = "profile"
    /\ AppendCompany(<<>>)
    /\ log' = Append(log, Sleep(delay, "profile"))
    /\ pc' = "entry_loop"
    /\ UNCHANGED <<caller, url, retry, attempt, resp, budget>>
    /\ UNCHANGED <<pages, delay, page, entries, df, written>>
    /\ UNCHANGED <<arg, ret>>

\* a page delay only between pages, none after the last page
PageEndNoSleepAfterLast ==
    /\ pc = "entry_loop"
    /\ idx > Len(entries)
    /\ log' = IF page < pages THEN Append(log, Sleep(delay, "page")) ELSE log
    /\ page' = page + 1
    /\ pc' = "page_loop"
    /\ UNCHANGED <<caller, url, retry, attempt, resp, budget>>
    /\ UNCHANGED <<pages, delay, entries, idx, all_companies, df, written>>
    /\ UNCHANGED <<arg, ret>>

\* line 125: the entries of the page are finished
PageEnd ==
    /\ pc = "entry_loop"
    /\ idx > Len(entries)
    /\ log' = Append(log, Sleep(delay, "page"))
    /\ page' = page + 1
    /\ pc' = "page_loop"
    /\ UNCHANGED <<caller, url, retry, attempt, resp, budget>>
    /\ UNCHANGED <<pages, delay, entries, idx, all_companies, df, written>>
    /\ UNCHANGED <<arg, ret>>

\* lines 127-128, 138: all pages are done, scrape returns the rows
ScrapeReturn ==
    /\ pc = "page_loop"
    /\ page > pages
    /\ df' = Some(all_companies)
    /\ pc' = "returned"
    /\ UNCHANGED <<caller, url, retry, attempt, resp, log, budget>>
    /\ UNCHANGED <<pages, delay, page, entries, idx, all_companies, written>>
    /\ UNCHANGED <<arg, ret>>

\* lines 139-140: the rows are written to the output file
MainWrite ==
    /\ pc = "returned"
    /\ written' = df
    /\ pc' = "done"
    /\ UNCHANGED <<caller, url, retry, attempt, resp, log, budget>>
    /\ UNCHANGED <<pages, delay, page, entries, idx, all_companies, df>>
    /\ UNCHANGED <<arg, ret>>

(***************************************************************************)
(* Specifications.                                                         *)
(***************************************************************************)
Delays == {2}

NoScrape ==
    /\ pages = 0 /\ delay = 0 /\ page = 0 /\ entries = <<>> /\ idx = 0
    /\ all_companies = <<>> /\ df = None /\ written = None

\* python scraper.py --pages P --delay D, at the entry of scrape
Init ==
    /\ pc = "page_loop"
    /\ caller = "none" /\ url = <<>> /\ retry = 0 /\ attempt = 0 /\ resp = None
    /\ log = <<>>
    /\ budget = MaxFail
    /\ pages \in 0..MaxPages
    /\ delay \in Delays
    /\ page = 1
    /\ entries = <<>> /\ idx = 0
    /\ all_companies = <<>>
    /\ df = None /\ written = None
    /\ arg = None /\ ret = None

Next ==
    \/ PageStart
    \/ FetchOk
    \/ FetchRetry
    \/ FetchRaise
    \/ ListingFetched
    \/ ListingFailed
    \/ EntryNoProfile
    \/ EntryVisit
    \/ ProfileFetched
    \/ ProfileFailed
    \/ PageEnd
    \/ ScrapeReturn
    \/ MainWrite

Spec == Init /\ [][Next]_vars

(***************************************************************************)
(* fetch called on its own, with every retry count up to MaxRetry; the     *)
(* network may fail every attempt.                                         *)
(***************************************************************************)
FetchUrls == {ListingUrl(1), ListingUrl(2), BaseRoot \o HrefAcme}

InitFetch ==
    /\ pc = "fetch"
    /\ caller = "direct"
    /\ url \in FetchUrls
    /\ retry \in 0..MaxRetry
    /\ attempt = 0
    /\ resp = None
    /\ log = <<Call(url, "direct")>>
    /\ budget = retry + 1
    /\ NoScrape
    /\ arg = None /\ ret = None

NextFetch ==
    \/ FetchOk
    \/ FetchRetry
    \/ FetchRaise

SpecFetch == InitFetch /\ [][NextFetch]_vars

(***************************************************************************)
(* parse_listing_page on every page of up to MaxNames name spans and       *)
(* MaxLocs location divs.                                                  *)
(***************************************************************************)
SeqsUpTo(S, n) == UNION {[1..k -> S] : k \in 0..n}

SpanPool ==
    {Span(<<"Acme Co">>, Some(HrefAcme)), Span(<<"Beta LLC">>, None),
     Span(<<"Gamma", "Inc">>, Some(<<>>))}
DivPool == {<<"New York", "US">>, <<"Paris">>, <<>>}

ListingInputs ==
    {[name_spans |-> n, loc_divs |-> l, mailto |-> <<>>, text |-> <<>>] :
        n \in SeqsUpTo(SpanPool, MaxNames), l \in SeqsUpTo(DivPool, MaxLocs)}

NoFetch ==
    /\ caller = "none" /\ url = <<>> /\ retry = 0 /\ attempt = 0 /\ resp = None
    /\ log = <<>> /\ budget = 0

InitParse ==
    /\ pc = "parse"
    /\ arg \in {Some(h) : h \in ListingInputs}
    /\ ret = None
    /\ NoFetch /\ NoScrape

DoParse ==
    /\ pc = "parse"
    /\ ret' = Some(ParseListingPage(Val(arg)))
    /\ pc' = "parsed"
    /\ UNCHANGED <<caller, url, retry, attempt, resp, log, budget, arg>>
    /\ UNCHANGED scrapeVars

SpecParse == InitParse /\ [][DoParse]_vars

(***************************************************************************)
(* resolve_profile_url on None and on hrefs built from a prefix and a      *)
(* suffix.                                                                 *)
(***************************************************************************)
HrefPrefixes ==
    {<<>>, Http, BaseScheme, <<"H","t","t","p">>, <<"f","t","p">>, <<"m","a","i","l","t","o">>,
     <<"/">>, <<"/","/","x">>, <<"?","q">>, <<"#","f">>, <<"a">>, <<"1">>}
HrefSuffixes ==
    {<<>>, <<":","/","x","/","a">>, <<":">>, <<":","a","@","b",".","c","o">>,
     <<"-","s","/","a">>, <<"/","a">>, <<"s">>, <<"x",".","c","o","/","a">>}
HrefExtras ==
    {HrefAbs, HrefHttpRel, Http \o <<":","/","/","x","/","a">>, <<"H","t","t","p",":","/","/","x","/","a">>}

HrefInputs ==
    {None} \cup {Some(p \o q) : p \in HrefPrefixes, q \in HrefSuffixes}
           \cup {Some(h) : h \in HrefExtras}

InitResolve ==
    /\ pc = "resolve"
    /\ arg \in {Some(h) : h \in HrefInputs}
    /\ ret = None
    /\ NoFetch /\ NoScrape

DoResolve ==
    /\ pc = "resolve"
    /\ ret' = Some(ResolveProfileUrl(Val(arg)))
    /\ pc' = "resolved"
    /\ UNCHANGED <<caller, url, retry, attempt, resp, log, budget, arg>>
    /\ UNCHANGED scrapeVars

SpecResolve == InitResolve /\ [][DoResolve]_vars

(***************************************************************************)
(* The email extraction of extract_emails_from_profile on every profile    *)
(* page of up to MaxAnchors mailto anchors and MaxText matches in the raw  *)
(* text.                                                                   *)
(***************************************************************************)
MailA == <<"a","@","b",".","c","o">>
MailUpperB == <<"B","@","b",".","c","o">>
MailLong == <<"a","@","b",".","c","o","m">>
MailDot == <<"a",".","b","@","b",".","c","o">>

EmailPool == {MailA, MailUpperB, MailLong, MailDot}
\* the matches of EMAIL_RE in one mailto href: none, one, or several
HrefMatchPool == {<<>>} \cup {<<e>> : e \in EmailPool} \cup {<<MailLong, MailA>>, <<MailA, MailDot>>}

ProfileInputs ==
    {[name_spans |-> <<>>, loc_divs |-> <<>>, mailto |-> m, text |-> t] :
        m \in SeqsUpTo(HrefMatchPool, MaxAnchors), t \in SeqsUpTo(EmailPool, MaxText)}

InitEmails ==
    /\ pc = "extract"
    /\ arg \in {Some(h) : h \in ProfileInputs}
    /\ ret = None
    /\ NoFetch /\ NoScrape

DoExtract ==
    /\ pc = "extract"
    /\ \E o \in Orderings(EmailSet(Val(arg))) : ret' = Some(ExtractEmails(o))
    /\ pc' = "extracted"
    /\ UNCHANGED <<caller, url, retry, attempt, resp, log, budget, arg>>
    /\ UNCHANGED scrapeVars

SpecEmails == InitEmails /\ [][DoExtract]_vars

(***************************************************************************)
(* Properties.                                                             *)
(***************************************************************************)
Last(s) == s[Len(s)]
Count(s, Test(_)) == Cardinality({i \in 1..Len(s) : Test(s[i])})

IsGet(e) == e.op = "GET"
IsFailedGet(e) == e.op = "GET" /\ IsNone(e.body)
IsDelaySleep(e) == e.op = "sleep" /\ e.by \in {"profile", "page"}

\* the log of a fetch of u by "direct" whose attempts i..r all fail
RECURSIVE FailTrace(_, _, _)
FailTrace(u, i, r) ==
    IF i >= r THEN <<Get(u, "direct", None)>>
    ELSE <<Get(u, "direct", None), Sleep(2 + i, "backoff")>> \o FailTrace(u, i + 1, r)

\* C1: a fetch with retry count r whose GETs all fail makes exactly r+1 GET
\* attempts, sleeps r times, 2+i seconds after the attempt of index i and not
\* after the last one, and then raises; while it is still trying it has made
\* no more than r attempts before the current one.
C1_FetchRaisesAfterAllAttempts ==
    /\ pc = "fetch_raise" =>
          /\ log = <<Call(url, "direct")>> \o FailTrace(url, 0, retry)
          /\ Count(log, IsGet) = retry + 1
          /\ Count(log, LAMBDA e : e.op = "sleep") = retry
    /\ pc = "fetch" =>
          /\ attempt <= retry
          /\ Count(log, IsFailedGet) = attempt
          /\ Count(log, IsGet) = attempt

C1_Witness == pc = "fetch_raise" /\ retry = 3 /\ Len(log) = 8

\* a GET that failed and was not followed by a backoff sleep: the fetch raised
Exhausted(i, who) ==
    /\ IsFailedGet(log[i])
    /\ log[i].by = who
    /\ (i = Len(log) \/ log[i + 1].by # "backoff")

\* C2: when a profile fetch has failed on all its attempts the run goes on:
\* the record of that company is appended with empty company_emails, the
\* entry loop moves to the next entry of the same page, only a listing
\* failure aborts, and a finished run has fetched every listing page.
C2_ProfileFailureDoesNotAbort ==
    /\ [][(pc = "fetch_raise" /\ caller = "profile") =>
            /\ pc' = "entry_loop"
            /\ idx' = idx + 1
            /\ page' = page
            /\ entries' = entries
            /\ Len(all_companies') = Len(all_companies) + 1
            /\ SubSeq(all_companies', 1, Len(all_companies)) = all_companies
            /\ Last(all_companies').company_name = entries[idx].name
            /\ Last(all_companies').company_profile_url = Some(url)
            /\ Last(all_companies').company_emails = <<>>]_vars
    /\ [](pc = "aborted" => caller = "listing")
    /\ []((pc = "done" /\ \E i \in 1..Len(log) : Exhausted(i, "profile")) =>
            Count(log, LAMBDA e : e.op = "fetch" /\ e.by = "listing") = pages)

C2_Witness ==
    /\ pc = "done"
    /\ \E i \in 1..Len(log) :
          /\ Exhausted(i, "profile")
          /\ \E j \in (i + 1)..Len(log) : log[j].op = "fetch" /\ log[j].by = "listing"
    /\ \E k \in 1..(Len(Val(written)) - 1) :
          /\ ~IsNone(Val(written)[k].company_profile_url)
          /\ Val(written)[k].company_emails = <<>>
          /\ Val(written)[k + 1].company_name = <<"Beta LLC">>

\* C3: once the fetch of a listing page has failed on all its attempts, that
\* failed GET is the last thing the run does: no later request or sleep,
\* scrape returns nothing and the output file is never written, whatever had
\* been accumulated.
C3_ListingFailureAborts ==
    \A i \in 1..Len(log) :
        Exhausted(i, "listing") =>
            /\ i = Len(log)
            /\ pc \in {"fetch_raise", "aborted"}
            /\ IsNone(df)
            /\ IsNone(written)

C3_Witness == pc = "aborted" /\ page = 2 /\ Len(all_companies) >= 2 /\ IsNone(written)

\* C4: for a page with N name spans and M <= N location divs,
\* parse_listing_page returns N entries in document order; entry i <= M has
\* the text of the i-th location div as its (non-null) location, and the
\* entries after the M-th have a null location.
C4_ParsePairsByIndex ==
    (pc = "parsed" /\ Len(Val(arg).loc_divs) <= Len(Val(arg).name_spans)) =>
        LET html == Val(arg)
            out == Val(ret)
            N == Len(html.name_spans)
            M == Len(html.loc_divs)
        IN /\ Len(out) = N
           /\ \A i \in 1..N :
                 /\ out[i].name = Join(<<>>, [k \in 1..Len(html.name_spans[i].frags) |->
                                                <<html.name_spans[i].frags[k]>>])
                 /\ out[i].profile_href = html.name_spans[i].href
           /\ \A i \in 1..M :
                 /\ ~IsNone(out[i].listing_location)
                 /\ Val(out[i].listing_location) =
                       Join(<<", ">>, [k \in 1..Len(html.loc_divs[i]) |-> <<html.loc_divs[i][k]>>])
           /\ \A i \in (M + 1)..N : IsNone(out[i].listing_location)

C4_Witness ==
    /\ pc = "parsed"
    /\ Len(Val(arg).name_spans) = 2
    /\ Len(Val(arg).loc_divs) = 1
    /\ Val(ret)[1].listing_location = Some(<<"New York", ", ", "US">>)
    /\ IsNone(Val(ret)[2].listing_location)

\* the URL of the k-th listing page
PageUrl(k) ==
    IF k = 1 THEN BASE_LISTING
    ELSE BASE_LISTING \o <<"?","p","a","g","e","=">> \o Str(k)

ListingCalls == SelectSeq(log, LAMBDA e : e.op = "fetch" /\ e.by = "listing")

\* C5: the listing fetches of a run are, in order, those of pages 1, 2, ...:
\* the first to the bare base URL, the k-th to BASE?page=k, none twice and
\* none skipped; every listing GET goes to the URL of the page being
\* fetched; and a run that returns has issued exactly P of them.
C5_ListingFetchesInPageOrder ==
    /\ Len(ListingCalls) <= pages
    /\ \A k \in 1..Len(ListingCalls) : ListingCalls[k].url = PageUrl(k)
    /\ \A i \in 1..Len(log) :
          (IsGet(log[i]) /\ log[i].by = "listing") =>
              log[i].url = PageUrl(Count(SubSeq(log, 1, i),
                                         LAMBDA e : e.op = "fetch" /\ e.by = "listing"))
    /\ pc \in {"returned", "done"} => Len(ListingCalls) = pages

C5_Witness ==
    /\ pc = "done"
    /\ pages = 2
    /\ Len(ListingCalls) = 2
    /\ ListingCalls[2].url = BASE_LISTING \o <<"?","p","a","g","e","=","2">>

\* the entries of the listing pages fetched so far, in page order
RECURSIVE EntriesOf(_)
EntriesOf(l) ==
    IF l = <<>> THEN <<>>
    ELSE IF IsGet(Head(l)) /\ Head(l).by = "listing" /\ ~IsNone(Head(l).body)
         THEN ParseListingPage(Val(Head(l).body)) \o EntriesOf(Tail(l))
         ELSE EntriesOf(Tail(l))

\* C6: the records are the entries of the fetched listing pages, one record
\* per entry, in page order and in document order within a page, each with
\* the name and the location of its entry; scrape returns all of them, none
\* dropped, merged or deduplicated.
C6_OneRecordPerEntry ==
    LET expected == EntriesOf(log)
    IN /\ Len(all_companies) <= Len(expected)
       /\ \A k \in 1..Len(all_companies) :
             /\ all_companies[k].company_name = expected[k].name
             /\ all_companies[k].company_geo = expected[k].listing_location
       /\ pc \in {"returned", "done"} =>
             /\ df = Some(all_companies)
             /\ Len(Val(df)) = Len(expected)
       /\ pc = "done" => written = df

C6_Witness ==
    /\ pc = "returned"
    /\ Len(Val(df)) >= 3
    /\ \E i, j \in 1..Len(Val(df)) :
          /\ i < j
          /\ Val(df)[i].company_name = Val(df)[j].company_name
          /\ Val(df)[i].company_profile_url = Val(df)[j].company_profile_url

\* C7: the list extracted from a profile page is strictly ascending in str
\* order (so it is sorted and has no duplicate) and holds exactly the first
\* match of each mailto href together with the matches in the raw text, in
\* whatever order the set of emails was iterated.
C7_EmailsSortedUniqueUnion ==
    pc = "extracted" =>
        LET html == Val(arg)
            out == Val(ret)
        IN /\ \A i \in 1..(Len(out) - 1) : StrLess(out[i], out[i + 1])
           /\ \A i, j \in 1..Len(out) : i # j => out[i] # out[j]
           /\ \A e \in Range(out) :
                 \/ \E k \in 1..Len(html.mailto) : html.mailto[k] # <<>> /\ html.mailto[k][1] = e
                 \/ \E k \in 1..Len(html.text) : html.text[k] = e
           /\ \A k \in 1..Len(html.mailto) : html.mailto[k] # <<>> => html.mailto[k][1] \in Range(out)
           /\ \A k \in 1..Len(html.text) : html.text[k] \in Range(out)

C7_Witness ==
    /\ pc = "extracted"
    /\ Val(arg).mailto = << <<MailLong, MailA>>, <<MailUpperB>> >>
    /\ Val(arg).text = <<MailDot, MailLong>>
    /\ Val(ret) = <<MailUpperB, MailDot, MailLong>>

\* C8: resolve_profile_url returns None for a None or empty href and an
\* absolute URL for every other href.
C8_ResolvedIsNullOrAbsolute ==
    pc = "resolved" =>
        LET href == Val(arg)
            out == Val(ret)
        IN IF IsNone(href) \/ Val(href) = <<>> THEN IsNone(out)
           ELSE ~IsNone(out) /\ IsAbsolute(Val(out))

ProfileRows(rows) == {k \in 1..Len(rows) : Truthy(rows[k].company_profile_url)}

C10_DelayBetweenRequests ==
    \A i, j \in 1..Len(log) :
        (/\ i < j
         /\ IsGet(log[i])
         /\ IsGet(log[j])
         /\ log[i].url # log[j].url
         /\ \A k \in (i + 1)..(j - 1) : ~IsGet(log[k]))
        => \E k \in (i + 1)..(j - 1) : log[k].op = "sleep" /\ log[k].secs = delay

====
